---- MODULE Spec2Model ----
(***************************************************************************)
(* Model of cputest/unaligned_stores.cpp: the sweep of unaligned stores    *)
(* over a 32-byte window, the simulated reference write, and the PI ERROR  *)
(* interrupt handler that runs asynchronously to the main thread.          *)
(***************************************************************************)
EXTENDS Integers, Sequences, FiniteSets, TLC

VARIABLES
    main_pc,              \* index of the statement of main() being executed
    tpc,                  \* position inside UnalignedStoresTest ("idle" outside)
    i,                    \* the loop variable of UnalignedStoresTest
    mem,                  \* the 32 bytes at ptr .. ptr+31 (the real window)
    reference_buffer,     \* the local array reference_buffer[32]
    ref_written,          \* indices (relative to reference_buffer) written by the simulated write
    s_pi_error_occurred,  \* the global flag set by PIErrorHandler
    pi_irq,               \* the PI ERROR interrupt line (asserted until acknowledged)
    irq_handler,          \* TRUE once IRQ_Request installed PIErrorHandler
    irq_unmasked,         \* TRUE once __UnmaskIrq(IM_PI_ERROR) ran
    arena,                \* TRUE once GetMEM1Buffer returned the 64-byte region
    invalidated,          \* offsets of the cache lines that dcbi invalidated
    data_equal,           \* outcome of the last DO_TEST(std::equal(...))
    pi_error_expected,    \* local of the loop body
    pi_error_actual,      \* local of the loop body
    fault_equal,          \* outcome of the last DO_TEST(pi_error_actual == pi_error_expected)
    store_faulted,        \* history: the store of the current trial raised PI ERROR
    trials,               \* history: loop bodies started in the current call
    ncalls                \* history: calls of UnalignedStoresTest made so far

vars == <<main_pc, tpc, i, mem, reference_buffer, ref_written, s_pi_error_occurred,
          pi_irq, irq_handler, irq_unmasked, arena, invalidated, data_equal,
          pi_error_expected, pi_error_actual, fault_equal, store_faulted, trials, ncalls>>

\* ---------------------------------------------------------------- constants

\* sizeof(reference_buffer), and the length of the window at ptr
WindowSize == 32

Window == 0 .. WindowSize - 1

word == 305419896          \* 0x12345678

fill_word == 16909060      \* 0x01020304

\* STSW_VALUES[k] for k in 0..31 is 0x10 + k
STSW_VALUES == [k \in 0 .. 31 |-> 16 + k]

Pow256(n) == IF n = 0 THEN 1 ELSE IF n = 1 THEN 256 ELSE IF n = 2 THEN 65536 ELSE 16777216

\* byte k (0 = most significant) of the big-endian encoding of the low `size` bytes
ByteBE(value, size, k) == (value \div Pow256(size - 1 - k)) % 256

\* swapped_word of UnalignedStoresTest
MutSwappedWord(mode, size) == IF mode = "Swap" THEN 2018915346 ELSE word

SwappedWord(mode, size) ==
    IF mode = "Swap" THEN (IF size = 2 THEN 305428566 ELSE 2018915346) ELSE word

IsStsw(mode) == mode = "Stswi" \/ mode = "Stswx"

\* ------------------------------------------------------------ memory writes

\* A buffer under construction: b the 32 bytes, t the indices written so far
\* (indices outside 0..31 are bytes before or after the array).
Buf(b, t) == [b |-> b, t |-> t]

\* std::fill of the 32 bytes with fill_word, as eight 32-bit writes
Fill == [x \in Window |-> ByteBE(fill_word, 4, x % 4)]

\* Write(ptr, value, size, swap): stwx/stwbrx, sthx/sthbrx, stbx; no store for other sizes
Write(m, at, value, size, swap) ==
    IF size \in {1, 2, 4}
    THEN Buf([x \in Window |->
                 IF x >= at /\ x < at + size
                 THEN (IF swap /\ size > 1
                       THEN ByteBE(value, size, size - 1 - (x - at))
                       ELSE ByteBE(value, size, x - at))
                 ELSE m.b[x]],
             m.t \cup (at .. at + size - 1))
    ELSE m

\* Common::RotateRight(u32 value, amount)
RotateRight(value, amount) ==
    LET a == amount % 32
    IN  IF a = 0 THEN value
        ELSE (value \div (2 ^ a)) + (value % (2 ^ a)) * (2 ^ (32 - a))

\* the for loop of WriteWithSimulatedQuirks: i = k, k+8, ... while i < count
RECURSIVE QuirkLoop(_, _, _, _, _)
QuirkLoop(m, base, value, k, count) ==
    IF k < count
    THEN QuirkLoop(Write(Write(m, base + k, value, 4, FALSE), base + k + 4, value, 4, FALSE),
                   base, value, k + 8, count)
    ELSE m

MutQuirkNoRotate(m, alignment, at, value, size) ==
    LET misalignment_32 == alignment % 4
    IN  IF misalignment_32 /= 0 \/ size < 4
        THEN LET misalignment_64 == alignment % 8
                 count == misalignment_64 + size
             IN  QuirkLoop(m, at - misalignment_64, value, 0, count)
        ELSE Write(m, at, value, size, FALSE)

MutQuirkOneMore(m, alignment, at, value, size) ==
    LET misalignment_32 == alignment % 4
    IN  IF misalignment_32 /= 0 \/ size < 4
        THEN LET misalignment_64 == alignment % 8
                 count == misalignment_64 + size
                 rotated == RotateRight(value, (misalignment_32 + size) * 8)
             IN  QuirkLoop(m, at - misalignment_64, rotated, 0, count + 1)
        ELSE Write(m, at, value, size, FALSE)

MutQuirkSpan4(m, alignment, at, value, size) ==
    LET misalignment_32 == alignment % 4
    IN  IF misalignment_32 /= 0 \/ size < 4
        THEN LET misalignment_64 == alignment % 4
                 count == misalignment_64 + size
                 rotated == RotateRight(value, (misalignment_32 + size) * 8)
             IN  QuirkLoop(m, at - misalignment_64, rotated, 0, count)
        ELSE Write(m, at, value, size, FALSE)

\* WriteWithSimulatedQuirks(alignment, ptr, value, size), ptr = buffer + at
WriteWithSimulatedQuirks(m, alignment, at, value, size) ==
    LET misalignment_32 == alignment % 4
    IN  IF misalignment_32 /= 0 \/ size < 4
        THEN LET misalignment_64 == alignment % 8
                 count == misalignment_64 + size
                 rotated == RotateRight(value, (misalignment_32 + size) * 8)
             IN  QuirkLoop(m, at - misalignment_64, rotated, 0, count)
        ELSE Write(m, at, value, size, FALSE)

MutStswShort(m, at, src, size) ==
    Buf([x \in Window |-> IF x >= at /\ x < at + size - 1 THEN src[x - at] ELSE m.b[x]],
        m.t \cup (at .. at + size - 2))

\* WriteStswSimulated(out_ptr, in_ptr, size): std::copy of `size` bytes
WriteStswSimulated(m, at, src, size) ==
    Buf([x \in Window |-> IF x >= at /\ x < at + size THEN src[x - at] ELSE m.b[x]],
        m.t \cup (at .. at + size - 1))

\* Number of bytes the string store instruction moves: stswi takes its count
\* from stswi_table[out_size & 31] (NB = 0 encodes 32), stswx from XER.
StswCount(mode, size) ==
    IF mode = "Stswi" THEN (IF size % 32 = 0 THEN 32 ELSE size % 32) ELSE size % 128

\* The store under test, as the machine performs it.  quirk: the store
\* unit splits the store as described in the issue the test covers.
HardwareStore(b, mode, size, at, quirk) ==
    IF IsStsw(mode)
    THEN WriteStswSimulated(Buf(b, {}), at, STSW_VALUES, StswCount(mode, size)).b
    ELSE IF quirk
         THEN WriteWithSimulatedQuirks(Buf(b, {}), at, at, SwappedWord(mode, size), size).b
         ELSE Write(Buf(b, {}), at, word, size, mode = "Swap").b

\* ------------------------------------------------------------------ main()

Stmt(op, ptr, size, cached_memory, mode) ==
    [op |-> op, ptr |-> ptr, size |-> size, cached_memory |-> cached_memory, mode |-> mode]

Plain(op) == Stmt(op, "none", 0, FALSE, "none")

Test(ptr, size, cached_memory, mode) == Stmt("UnalignedStoresTest", ptr, size, cached_memory, mode)

\* the calls of main() before the cache is invalidated
CachedCalls ==
    << Test("cached_ptr", 1, TRUE, "Regular"),
       Test("cached_ptr", 2, TRUE, "Regular"),
       Test("cached_ptr", 4, TRUE, "Regular"),
       Test("cached_ptr", 2, TRUE, "Swap"),
       Test("cached_ptr", 4, TRUE, "Swap") >>
    \o [s \in 1 .. 32 |-> Test("cached_ptr", s, TRUE, "Stswi")]
    \o [s \in 1 .. 33 |-> Test("cached_ptr", s - 1, TRUE, "Stswx")]

MutUncachedCallsAllUncached ==
    << Test("uncached_ptr", 1, FALSE, "Regular"),
       Test("uncached_ptr", 2, FALSE, "Regular"),
       Test("uncached_ptr", 4, FALSE, "Regular"),
       Test("uncached_ptr", 2, FALSE, "Swap"),
       Test("uncached_ptr", 4, FALSE, "Swap") >>
    \o [s \in 1 .. 32 |-> Test("uncached_ptr", s, FALSE, "Stswi")]
    \o [s \in 1 .. 33 |-> Test("uncached_ptr", s - 1, FALSE, "Stswx")]

\* the calls of main() after the cache is invalidated
UncachedCalls ==
    << Test("uncached_ptr", 1, FALSE, "Regular"),
       Test("uncached_ptr", 2, FALSE, "Regular"),
       Test("uncached_ptr", 4, FALSE, "Regular"),
       Test("uncached_ptr", 2, FALSE, "Swap"),
       Test("uncached_ptr", 4, FALSE, "Swap") >>
    \o [s \in 1 .. 32 |-> Test("cached_ptr", s, FALSE, "Stswi")]
    \o [s \in 1 .. 33 |-> Test("cached_ptr", s - 1, FALSE, "Stswx")]

\* the statements of main(), in order
MainProgram ==
    << Plain("Initialize"), Plain("IRQ_Request"), Plain("UnmaskIrq"), Plain("GetMEM1Buffer") >>
    \o CachedCalls
    \o << Stmt("dcbi", "none", 0, FALSE, "none"), Stmt("dcbi", "none", 32, FALSE, "none") >>
    \o UncachedCalls
    \o << Plain("network_shutdown") >>

AtEnd == main_pc = Len(MainProgram) + 1

cur == MainProgram[main_pc]

InMain(op) == tpc = "idle" /\ ~AtEnd /\ cur.op = op

Init ==
    /\ main_pc = 1
    /\ tpc = "idle"
    /\ i = 0
    /\ mem = [x \in Window |-> 0]
    /\ reference_buffer = [x \in Window |-> 0]
    /\ ref_written = {}
    /\ s_pi_error_occurred = FALSE
    /\ pi_irq = FALSE
    /\ irq_handler = FALSE
    /\ irq_unmasked = FALSE
    /\ arena = FALSE
    /\ invalidated = {}
    /\ data_equal = TRUE
    /\ pi_error_expected = FALSE
    /\ pi_error_actual = FALSE
    /\ fault_equal = TRUE
    /\ store_faulted = FALSE
    /\ trials = 0
    /\ ncalls = 0

trialVars == <<i, mem, reference_buffer, ref_written, data_equal, pi_error_expected,
               pi_error_actual, fault_equal, store_faulted, trials, ncalls>>

Initialize ==
    /\ InMain("Initialize")
    /\ main_pc' = main_pc + 1
    /\ UNCHANGED <<tpc, s_pi_error_occurred, pi_irq, irq_handler, irq_unmasked, arena,
                   invalidated, trialVars>>

IRQRequest ==
    /\ InMain("IRQ_Request")
    /\ irq_handler' = TRUE
    /\ main_pc' = main_pc + 1
    /\ UNCHANGED <<tpc, s_pi_error_occurred, pi_irq, irq_unmasked, arena, invalidated, trialVars>>

UnmaskIrq ==
    /\ InMain("UnmaskIrq")
    /\ irq_unmasked' = TRUE
    /\ main_pc' = main_pc + 1
    /\ UNCHANGED <<tpc, s_pi_error_occurred, pi_irq, irq_handler, arena, invalidated, trialVars>>

GetMEM1Buffer ==
    /\ InMain("GetMEM1Buffer")
    /\ arena' = TRUE
    /\ main_pc' = main_pc + 1
    /\ UNCHANGED <<tpc, s_pi_error_occurred, pi_irq, irq_handler, irq_unmasked, invalidated,
                   trialVars>>

Dcbi ==
    /\ InMain("dcbi")
    /\ invalidated' = invalidated \cup {cur.size}
    /\ main_pc' = main_pc + 1
    /\ UNCHANGED <<tpc, s_pi_error_occurred, pi_irq, irq_handler, irq_unmasked, arena, trialVars>>

Shutdown ==
    /\ InMain("network_shutdown")
    /\ main_pc' = main_pc + 1
    /\ UNCHANGED <<tpc, s_pi_error_occurred, pi_irq, irq_handler, irq_unmasked, arena,
                   invalidated, trialVars>>

\* ------------------------------------------------------ UnalignedStoresTest

hwVars == <<s_pi_error_occurred, pi_irq, irq_handler, irq_unmasked, arena, invalidated>>

\* entry: the locals are set up and the for loop starts with i = 0
Call ==
    /\ InMain("UnalignedStoresTest")
    /\ tpc' = "for"
    /\ i' = 0
    /\ trials' = 0
    /\ ncalls' = ncalls + 1
    /\ UNCHANGED <<main_pc, mem, reference_buffer, ref_written, data_equal, pi_error_expected,
                   pi_error_actual, fault_equal, store_faulted, hwVars>>

\* the loop condition i <= 32 - size (size <= 32 in every call main() makes, so
\* the unsigned subtraction does not wrap); when it fails the function returns
ForCond ==
    /\ tpc = "for"
    /\ \/ /\ i <= 32 - cur.size
          /\ tpc' = "fill"
          /\ UNCHANGED main_pc
       \/ /\ ~(i <= 32 - cur.size)
          /\ tpc' = "idle"
          /\ main_pc' = main_pc + 1
    /\ UNCHANGED <<trialVars, hwVars>>

\* the two std::fill calls
Refill ==
    /\ tpc = "fill"
    /\ mem' = Fill
    /\ reference_buffer' = Fill
    /\ ref_written' = {}
    /\ store_faulted' = FALSE
    /\ trials' = trials + 1
    /\ tpc' = "clear"
    /\ UNCHANGED <<main_pc, i, data_equal, pi_error_expected, pi_error_actual, fault_equal,
                   ncalls, hwVars>>

\* s_pi_error_occurred = false
ClearFlag ==
    /\ tpc = "clear"
    /\ s_pi_error_occurred' = FALSE
    /\ tpc' = "store"
    /\ UNCHANGED <<main_pc, trialVars, pi_irq, irq_handler, irq_unmasked, arena, invalidated>>

\* The store under test: WriteStswi / WriteStswx / Write on ptr + i.  Only a
\* store through the uncached mirror reaches the processor interface, which
\* may answer it with PI ERROR.
RealStore ==
    /\ tpc = "store"
    /\ \E quirk \in (IF cur.ptr = "uncached_ptr" THEN BOOLEAN ELSE {FALSE}),
          fault \in (IF cur.ptr = "uncached_ptr" THEN BOOLEAN ELSE {FALSE}) :
          /\ mem' = HardwareStore(mem, cur.mode, cur.size, i, quirk)
          /\ store_faulted' = fault
          /\ pi_irq' = (pi_irq \/ fault)
    /\ tpc' = "model"
    /\ UNCHANGED <<main_pc, i, reference_buffer, ref_written, data_equal, pi_error_expected,
                   pi_error_actual, fault_equal, trials, ncalls, s_pi_error_occurred,
                   irq_handler, irq_unmasked, arena, invalidated>>

\* the write into reference_buffer + i
SimulatedWrite(b, mode, size, cached_memory, at) ==
    IF IsStsw(mode)
    THEN WriteStswSimulated(Buf(b, {}), at, STSW_VALUES, size)
    ELSE IF cached_memory
         THEN Write(Buf(b, {}), at, SwappedWord(mode, size), size, FALSE)
         ELSE WriteWithSimulatedQuirks(Buf(b, {}), at, at, SwappedWord(mode, size), size)

ModelWrite ==
    /\ tpc = "model"
    /\ LET r == SimulatedWrite(reference_buffer, cur.mode, cur.size, cur.cached_memory, i)
       IN  /\ reference_buffer' = r.b
           /\ ref_written' = r.t
    /\ tpc' = "compare"
    /\ UNCHANGED <<main_pc, i, mem, data_equal, pi_error_expected, pi_error_actual, fault_equal,
                   store_faulted, trials, ncalls, hwVars>>

\* DO_TEST(std::equal(ptr, ptr + 32, reference_buffer), ...)
CompareData ==
    /\ tpc = "compare"
    /\ data_equal' = (mem = reference_buffer)
    /\ tpc' = "readflag"
    /\ UNCHANGED <<main_pc, i, mem, reference_buffer, ref_written, pi_error_expected,
                   pi_error_actual, fault_equal, store_faulted, trials, ncalls, hwVars>>

MutPiErrorExpectedAligned(cached_memory, mode, at, size) ==
    ~cached_memory /\ ~IsStsw(mode) /\ (at % 4 /= 0 \/ size % 4 /= 0)

\* int pi_error_expected = !cached_memory && !stsw
PiErrorExpected(cached_memory, mode, at, size) == ~cached_memory /\ ~IsStsw(mode)

\* pi_error_expected and pi_error_actual are computed
ReadFlag ==
    /\ tpc = "readflag"
    /\ pi_error_expected' = PiErrorExpected(cur.cached_memory, cur.mode, i, cur.size)
    /\ pi_error_actual' = s_pi_error_occurred
    /\ tpc' = "check"
    /\ UNCHANGED <<main_pc, i, mem, reference_buffer, ref_written, data_equal, fault_equal,
                   store_faulted, trials, ncalls, hwVars>>

\* where the loop goes after the second DO_TEST
MutAfterTrialBreak(d_eq, f_eq) == IF d_eq /\ f_eq THEN "for" ELSE "return"

AfterTrial(d_eq, f_eq) == "for"

\* DO_TEST(pi_error_actual == pi_error_expected, ...), then ++i
CheckFault ==
    /\ tpc = "check"
    /\ fault_equal' = (pi_error_actual = pi_error_expected)
    /\ LET to == AfterTrial(data_equal, pi_error_actual = pi_error_expected)
       IN  IF to = "for"
           THEN /\ i' = i + 1
                /\ tpc' = "for"
                /\ UNCHANGED main_pc
           ELSE /\ i' = i
                /\ tpc' = "idle"
                /\ main_pc' = main_pc + 1
    /\ UNCHANGED <<mem, reference_buffer, ref_written, data_equal, pi_error_expected,
                   pi_error_actual, store_faulted, trials, ncalls, hwVars>>

\* ----------------------------------------------------------- PIErrorHandler

\* The handler runs on the external interrupt, between any two steps of the
\* main thread: it acknowledges the interrupt and sets the flag.
PIErrorHandler ==
    /\ pi_irq /\ irq_handler /\ irq_unmasked
    /\ pi_irq' = FALSE
    /\ s_pi_error_occurred' = TRUE
    /\ UNCHANGED <<main_pc, tpc, trialVars, irq_handler, irq_unmasked, arena, invalidated>>

MainThread ==
    \/ Initialize \/ IRQRequest \/ UnmaskIrq \/ GetMEM1Buffer \/ Dcbi \/ Shutdown
    \/ Call \/ ForCond \/ Refill \/ ClearFlag \/ RealStore \/ ModelWrite
    \/ CompareData \/ ReadFlag \/ CheckFault

Next ==
    \/ Initialize \/ IRQRequest \/ UnmaskIrq \/ GetMEM1Buffer \/ Dcbi \/ Shutdown
    \/ Call \/ ForCond \/ Refill \/ ClearFlag \/ RealStore \/ ModelWrite
    \/ CompareData \/ ReadFlag \/ CheckFault
    \/ PIErrorHandler

Spec == Init /\ [][Next]_vars

\* The main thread always makes progress; a raised interrupt is delivered.
FairSpec == Spec /\ WF_vars(MainThread) /\ WF_vars(PIErrorHandler)

\* ================================================================== claims

\* the simulated write of the current trial has been made
AfterModel == tpc \in {"compare", "readflag", "check"}

NonString == cur.mode \in {"Regular", "Swap"}

\* byte k of the target range as the claim states it: the big-endian encoding
\* of the low `size` bytes of 0x12345678, in reverse order for Swap
TargetByte(mode, size, k) ==
    IF mode = "Swap" THEN (305419896 \div Pow256(k)) % 256
    ELSE (305419896 \div Pow256(size - 1 - k)) % 256

\* C1: for Regular and Swap, cached or not, after the simulated write the
\* bytes at [i, i+size) of reference_buffer are the big-endian encoding of the
\* low `size` bytes of 0x12345678 (byte-reversed for Swap).
C1_TargetBytes ==
    (AfterModel /\ NonString) =>
        \A k \in 0 .. cur.size - 1 : reference_buffer[i + k] = TargetByte(cur.mode, cur.size, k)

C1_Witness ==
    /\ AfterModel /\ cur.mode = "Swap" /\ cur.size = 2 /\ ~cur.cached_memory /\ i = 3
    /\ reference_buffer[3] = 120 /\ reference_buffer[4] = 86

RoundUp8(n) == ((n + 7) \div 8) * 8

SpanLo == i - (i % 8)

SpanHi == SpanLo + RoundUp8((i % 8) + cur.size)

\* byte j (0 = most significant) of v rotated right by n bits, n a multiple of 8
RotatedByte(v, n, j) == ByteBE(v, 4, (j + 4 * 16 - (n \div 8)) % 4)

\* C2: uncached Regular/Swap: when i mod 4 /= 0 or size < 4 the simulated write
\* changes exactly the span [i - i mod 8, that + roundup8(i mod 8 + size)),
\* each aligned 4-byte group of the span holds the word rotated right by
\* ((i mod 4) + size) * 8 bits, and every other byte keeps the sentinel;
\* when i mod 4 = 0 and size = 4 only [i, i+4) changes.
C2_QuirkSpan ==
    (AfterModel /\ NonString /\ ~cur.cached_memory) =>
        IF i % 4 /= 0 \/ cur.size < 4
        THEN /\ ref_written = SpanLo .. SpanHi - 1
             /\ \A x \in Window :
                   reference_buffer[x] =
                       IF x >= SpanLo /\ x < SpanHi
                       THEN RotatedByte(SwappedWord(cur.mode, cur.size),
                                        ((i % 4) + cur.size) * 8, x % 4)
                       ELSE Fill[x]
        ELSE /\ ref_written = i .. i + 3
             /\ \A x \in Window \ (i .. i + 3) : reference_buffer[x] = Fill[x]

C2_Witness ==
    /\ AfterModel /\ cur.mode = "Regular" /\ cur.size = 4 /\ ~cur.cached_memory /\ i = 6
    /\ ref_written = 0 .. 15
    /\ reference_buffer[0] = 86 /\ reference_buffer[15] = 52 /\ reference_buffer[16] = 1

\* the bytes of a string-mode trial when N bytes of STSW_VALUES are copied to offset i
StringResult(N) ==
    /\ ref_written = i .. i + N - 1
    /\ \A x \in Window :
          reference_buffer[x] = IF x >= i /\ x < i + N THEN 16 + (x - i) ELSE Fill[x]

\* C3 as stated: a string-mode trial of size 0 copies 32 bytes.
C3_Original ==
    (AfterModel /\ ~NonString) => StringResult(IF cur.size = 0 THEN 32 ELSE cur.size)

\* C3: in the string modes the simulated write places exactly the first `size`
\* bytes of 0x10..0x2f at offset i (none when size = 0) and leaves every other
\* byte of the window as sentinel, whatever cached_memory and the alignment of i.
C3_StringCopy ==
    (AfterModel /\ ~NonString) => StringResult(cur.size)

C3_Witness ==
    /\ AfterModel /\ cur.mode = "Stswx" /\ cur.size = 0 /\ ~cur.cached_memory /\ i = 5
    /\ ref_written = {} /\ reference_buffer = Fill

C4_Trial == tpc /= "idle" /\ cur.mode = "Swap" /\ cur.size = 2 /\ ~cur.cached_memory /\ i = 1

\* the window holds the four bytes t tiled over offsets 0..7 and the sentinel elsewhere
Tiled(t) ==
    \A x \in Window : reference_buffer[x] = IF x < 8 THEN t[(x % 4) + 1] ELSE Fill[x]

\* C4 as stated: the trial uses the swapped word 0x78563412.
C4_Original ==
    /\ (AfterModel /\ C4_Trial) =>
          /\ SwappedWord(cur.mode, cur.size) = 2018915346
          /\ Tiled(<<86, 52, 18, 120>>)
    /\ (tpc = "check" /\ C4_Trial) => pi_error_expected

\* C4: for size 2, Swap, offset 1, uncached, the simulated write uses the
\* swapped word 0x12347856, rotates it right by 24 bits to 0x34785612 and
\* tiles that over offsets 0..7, all other bytes sentinel; the expected fault
\* outcome of the trial is true.
C4_Scenario ==
    /\ (AfterModel /\ C4_Trial) =>
          /\ SwappedWord(cur.mode, cur.size) = 305428566
          /\ RotateRight(SwappedWord(cur.mode, cur.size), 24) = 880301586
          /\ Tiled(<<52, 120, 86, 18>>)
    /\ (tpc = "check" /\ C4_Trial) => pi_error_expected

C4_Witness == tpc = "check" /\ C4_Trial /\ pi_error_expected /\ reference_buffer[1] = 120

\* C5: in every trial the expected fault outcome is (not cached and mode is
\* Regular or Swap), whatever the size and the offset.
C5_FaultExpected ==
    tpc = "check" => (pi_error_expected = (~cur.cached_memory /\ NonString))

C5_Witness ==
    /\ tpc = "check" /\ cur.mode = "Regular" /\ cur.size = 4 /\ ~cur.cached_memory
    /\ i = 8 /\ pi_error_expected

TrialOrder ==
    {<<"for", "fill">>, <<"fill", "clear">>, <<"clear", "store">>, <<"store", "model">>,
     <<"model", "compare">>, <<"compare", "readflag">>, <<"readflag", "check">>,
     <<"check", "for">>, <<"for", "idle">>, <<"idle", "for">>}

C8_Step ==
    /\ tpc' /= tpc => <<tpc, tpc'>> \in TrialOrder
    /\ (tpc = "for" /\ tpc' = "fill") => (i = trials /\ i <= 32 - cur.size)
    /\ (tpc = "fill" /\ tpc' = "clear") =>
          (mem' = Fill /\ reference_buffer' = Fill /\ trials' = trials + 1)
    /\ (tpc = "clear" /\ tpc' = "store") => ~s_pi_error_occurred'
    /\ (tpc = "check" /\ tpc' /= tpc) => (tpc' = "for" /\ i' = i + 1 /\ main_pc' = main_pc)
    /\ (tpc = "for" /\ tpc' = "idle") => (i = 33 - cur.size /\ trials = 33 - cur.size)

\* C8: a call runs one trial per offset 0..32-size in increasing order, each
\* with refill, flag clear, store, simulated write, comparison and fault
\* check; a mismatch never skips a later trial; the call returns.
C8_Sweep ==
    /\ [][C8_Step]_vars
    /\ (tpc /= "idle") ~> (tpc = "idle")

C8_Witness ==
    /\ tpc = "store" /\ i = 5 /\ trials = 6 /\ ~data_equal /\ ~fault_equal
    /\ cur.mode = "Regular" /\ ~cur.cached_memory

\* the n-th sweep (1..70) of the matrix of C9
MatrixMode(n) ==
    IF n <= 3 THEN "Regular" ELSE IF n <= 5 THEN "Swap" ELSE IF n <= 37 THEN "Stswi" ELSE "Stswx"

MatrixSize(n) ==
    IF n <= 3 THEN <<1, 2, 4>>[n] ELSE IF n <= 5 THEN <<2, 4>>[n - 3]
    ELSE IF n <= 37 THEN n - 5 ELSE n - 38

\* C9: the handler is installed and unmasked before any store; the sweeps run
\* cached first (Regular 1,2,4; Swap 2,4; Stswi 1..32; Stswx 0..32), then both
\* cache lines are invalidated, then the same matrix with cached = false, on
\* the uncached pointer for Regular/Swap and the cached pointer for the
\* string modes.
C9_Matrix ==
    /\ tpc /= "idle" =>
          /\ irq_handler /\ irq_unmasked
          /\ ncalls \in 1 .. 140
          /\ LET n == ((ncalls - 1) % 70) + 1
                 c == ncalls <= 70
             IN  /\ cur.mode = MatrixMode(n)
                 /\ cur.size = MatrixSize(n)
                 /\ cur.cached_memory = c
                 /\ cur.ptr = (IF ~c /\ n <= 5 THEN "uncached_ptr" ELSE "cached_ptr")
                 /\ invalidated = (IF c THEN {} ELSE {0, 32})
    /\ AtEnd => ncalls = 140

C9_Witness ==
    /\ tpc = "store" /\ ncalls = 108 /\ cur.mode = "Stswx" /\ cur.size = 0
    /\ cur.ptr = "cached_ptr" /\ ~cur.cached_memory /\ invalidated = {0, 32}

\* C10: every byte the simulated write stores lands at an index 0..31 of
\* reference_buffer.
C10_InBounds == ref_written \subseteq Window

C10_Witness ==
    /\ AfterModel /\ cur.mode = "Regular" /\ cur.size = 2 /\ ~cur.cached_memory /\ i = 30
    /\ ref_written = 24 .. 31
====
